---- MODULE Spec2Model ----
(***************************************************************************)
(* validateMySQL: the validate mode of src/main.rs.                        *)
(*                                                                         *)
(* validate_db_info captures the live schema (current), reads the stored   *)
(* baseline (cached), compares the two table by table and column by        *)
(* column, writes one worksheet row per classification, optionally         *)
(* collects "alter table .. add column" statements, saves the workbook and *)
(* then writes the statement file.                                         *)
(*                                                                         *)
(* Strings that the code lower-cases (table and column names) and strings  *)
(* whose letter case the comparison could touch (column types) are         *)
(* sequences of ASCII codes, so that to_lowercase is computed, not         *)
(* assumed.  The literals of the worksheet are written in English here,    *)
(* the module being ASCII only:                                            *)
(*   "database" "table" "column" "result" "message"  = the header row      *)
(*   "success" / "failure"            = the texts of column 4              *)
(*   "column definition mismatch"     = the prefix of the format! at 213   *)
(*   "column missing" (218)  "column added" (235)                          *)
(*   "table missing" (244)   "table added" (247)  "both missing" (250)     *)
(*                                                                         *)
(* The worksheet and the statement list are kept as multisets (Bags): the  *)
(* row number a row lands on follows the iteration order of a HashSet with *)
(* a randomly seeded hasher and carries no other information.  The order   *)
(* of the tables inside a snapshot and of the columns inside a table is    *)
(* kept (sequences), since Iterator::find returns the first match.         *)
(***************************************************************************)
EXTENDS Integers, Sequences, FiniteSets, Bags, TLC

VARIABLES
    pc,             \* position in main / validate_db_info
    fix_lost_cols,  \* Args.fix_lost_cols, the -x flag
    current,        \* DBInfo captured from the live database (line 140)
    cached,         \* DBInfo decoded from the cache file (line 141)
    all_tables,     \* the part of the HashSet all_tables not yet iterated
    rows,           \* the rows written to the worksheet so far (a bag)
    fix_cols_sqls,  \* the statements pushed so far (a bag)
    report_saved,   \* wb.save(output_xlsx) has written the report
    fix_written,    \* fs::write("./path-cols.sql", ..) has written the file
    err             \* the call that failed and ended the run, "" for none

vars == <<pc, fix_lost_cols, current, cached, all_tables, rows,
          fix_cols_sqls, report_saved, fix_written, err>>

(***************************************************************************)
(* Bounds of the enumerated inputs.                                        *)
(***************************************************************************)
MaxTables == 2      \* tables per snapshot
MaxCols == 2        \* columns per table

(***************************************************************************)
(* str::to_lowercase on ASCII text: 'A'..'Z' (65..90) map to 'a'..'z'.     *)
(***************************************************************************)
to_lowercase(s) ==
    [i \in 1..Len(s) |-> IF s[i] >= 65 /\ s[i] <= 90 THEN s[i] + 32 ELSE s[i]]

db_name == "yyws_xyzl_view"

\* "Us", "us", "od"
TableNames == { <<85, 115>>, <<117, 115>>, <<111, 100>> }
\* "Id", "id", "nt"
ColNames == { <<73, 100>>, <<105, 100>>, <<110, 116>> }
\* "int", "INT"
ColTypes == { <<105, 110, 116>>, <<73, 78, 84>> }
Nullables == { "YES", "NO" }

ColInfo(col_name, col_type, is_nullable) ==
    [col_name |-> col_name, col_type |-> col_type, is_nullable |-> is_nullable]

TableInfo(table_name, col_infos) ==
    [table_name |-> table_name, col_infos |-> col_infos]

DBInfo(name, table_infos) ==
    [db_name |-> name, table_infos |-> table_infos]

SeqsUpTo(S, lo, hi) == UNION { [1..k -> S] : k \in lo..hi }

\* The uniqueness invariant of a snapshot: names are unique under lowercasing.
UniqueCols(col_infos) ==
    \A i, j \in 1..Len(col_infos) :
        i # j => to_lowercase(col_infos[i].col_name)
                   # to_lowercase(col_infos[j].col_name)

UniqueTables(table_infos) ==
    /\ \A i, j \in 1..Len(table_infos) :
          i # j => to_lowercase(table_infos[i].table_name)
                     # to_lowercase(table_infos[j].table_name)
    /\ \A i \in 1..Len(table_infos) : UniqueCols(table_infos[i].col_infos)

(***************************************************************************)
(* The snapshots the inspector or the cache file can hand over.  A table   *)
(* has at least one column: the table names come from                      *)
(* information_schema.COLUMNS (lines 80-82).  Three families are           *)
(* enumerated:                                                             *)
(*  - naming: up to MaxTables tables of up to MaxCols columns, at most one *)
(*    of them with more than one column, any spelling of the names, every  *)
(*    column "int" / "YES"; names unique under lowercasing;                *)
(*  - typing: one table "od" of up to MaxCols columns, any spelling, type  *)
(*    and nullability; names unique under lowercasing;                     *)
(*  - loose: tables "Us" / "us" with columns "Id int" / "id INT" /         *)
(*    "nt int", either one table of up to MaxCols columns or two tables of *)
(*    one column "Id" or "nt", names NOT required to be unique (nothing in *)
(*    the code enforces the uniqueness of what a cache file decodes to).   *)
(* The two snapshots of a run are drawn from the same family.              *)
(***************************************************************************)
NamingCols ==
    { ColInfo(c, <<105, 110, 116>>, "YES") : c \in ColNames }

TypingCols ==
    { ColInfo(c, t, n) : c \in ColNames, t \in ColTypes, n \in Nullables }

LooseCols ==
    { ColInfo(<<73, 100>>, <<105, 110, 116>>, "YES"),
      ColInfo(<<105, 100>>, <<73, 78, 84>>, "YES"),
      ColInfo(<<110, 116>>, <<105, 110, 116>>, "YES") }

ColLists(pool) == { cs \in SeqsUpTo(pool, 1, MaxCols) : UniqueCols(cs) }

AtMostOneWide(table_infos) ==
    \A i, j \in 1..Len(table_infos) :
        (Len(table_infos[i].col_infos) > 1 /\ Len(table_infos[j].col_infos) > 1)
            => i = j

NamingSnapshots ==
    LET tables == { TableInfo(t, cs) : t \in TableNames,
                                       cs \in ColLists(NamingCols) }
    IN  { DBInfo(db_name, ts) :
            ts \in { s \in SeqsUpTo(tables, 0, MaxTables) :
                       UniqueTables(s) /\ AtMostOneWide(s) } }

TypingSnapshots ==
    { DBInfo(db_name, << TableInfo(<<111, 100>>, cs) >>) :
        cs \in ColLists(TypingCols) }

LooseSnapshots ==
    LET names == { <<85, 115>>, <<117, 115>> }
        wide == { TableInfo(t, cs) : t \in names,
                                     cs \in SeqsUpTo(LooseCols, 1, MaxCols) }
        narrow == { TableInfo(t, <<c>>) :
                      t \in names,
                      c \in { x \in LooseCols : x.col_type = <<105, 110, 116>> } }
    IN  { DBInfo(db_name, <<t>>) : t \in wide }
            \cup { DBInfo(db_name, <<t, u>>) : t \in narrow, u \in narrow }

Snapshots == NamingSnapshots \cup TypingSnapshots \cup LooseSnapshots

SameFamily(s) ==
    IF s \in NamingSnapshots THEN NamingSnapshots
    ELSE IF s \in TypingSnapshots THEN TypingSnapshots
    ELSE LooseSnapshots

NoSnapshot == DBInfo("", <<>>)

(***************************************************************************)
(* The worksheet row of write_row(c1, c2, c3, c4, c5) (lines 147-154).     *)
(* c5 is a sequence of the pieces of the message, <<>> being "".           *)
(***************************************************************************)
WriteRow(c1, c2, c3, c4, c5) ==
    [c1 |-> c1, c2 |-> c2, c3 |-> c3, c4 |-> c4, c5 |-> c5]

\* write_row("database", "table", "column", "result", "message") (line 156);
\* c2 and c3 are the ASCII codes of "table" and "column".
HeaderRow ==
    WriteRow("database", <<116, 97, 98, 108, 101>>,
             <<99, 111, 108, 117, 109, 110>>, "result", <<"message">>)

\* format!("alter table {table_name} add column {col_name} {col_type};")
AlterSql(table_name, col_name, col_type) ==
    << "alter table ", table_name, " add column ", col_name, " ", col_type, ";" >>

\* format!("...{} --> {}", old.col_type, new.col_type)
MismatchMsg(old_type, new_type) ==
    << "column definition mismatch", old_type, " --> ", new_type >>

Min(S) == CHOOSE x \in S : \A y \in S : x <= y

\* Mutant of FindTable: the names are compared as spelled.
FindTableExact(table_infos, tbl) ==
    LET hits == { i \in 1..Len(table_infos) : tbl = table_infos[i].table_name }
    IN  IF hits = {} THEN 0 ELSE Min(hits)

(***************************************************************************)
(* iter().find(|t| tbl.to_lowercase() == t.table_name.to_lowercase())      *)
(* (lines 171-180): the index of the first match, 0 for None.              *)
(***************************************************************************)
FindTable(table_infos, tbl) ==
    LET hits == { i \in 1..Len(table_infos) :
                    to_lowercase(tbl) = to_lowercase(table_infos[i].table_name) }
    IN  IF hits = {} THEN 0 ELSE Min(hits)

\* Mutant of FindCol: the key is not lowercased.
FindColHalfLower(col_infos, col) ==
    LET hits == { i \in 1..Len(col_infos) :
                    to_lowercase(col_infos[i].col_name) = col }
    IN  IF hits = {} THEN 0 ELSE Min(hits)

\* Mutant of FindCol: only the first column is looked at.
FindColFirstOnly(col_infos, col) ==
    LET hits == { i \in 1..Len(col_infos) :
                    /\ i = 1
                    /\ to_lowercase(col_infos[i].col_name) = to_lowercase(col) }
    IN  IF hits = {} THEN 0 ELSE Min(hits)

\* iter().find(|x| x.col_name.to_lowercase() == col.to_lowercase())
\* (lines 195-202)
FindCol(col_infos, col) ==
    LET hits == { i \in 1..Len(col_infos) :
                    to_lowercase(col_infos[i].col_name) = to_lowercase(col) }
    IN  IF hits = {} THEN 0 ELSE Min(hits)

\* Mutant of AllTables: the names of the current snapshot are not chained.
AllTablesCachedOnly(c, n) ==
    { c.table_infos[i].table_name : i \in 1..Len(c.table_infos) }

\* The HashSet of the table names of both snapshots, as spelled (158-163).
AllTables(c, n) ==
    { c.table_infos[i].table_name : i \in 1..Len(c.table_infos) }
        \cup { n.table_infos[i].table_name : i \in 1..Len(n.table_infos) }

\* The HashSet of the column names of both tables, as spelled (186-191).
AllCols(c, n) ==
    { c.col_infos[i].col_name : i \in 1..Len(c.col_infos) }
        \cup { n.col_infos[i].col_name : i \in 1..Len(n.col_infos) }

\* Mutant of SameType: the nullable values are compared too.
SameTypeAndNullable(old, new) ==
    old.col_type = new.col_type /\ old.is_nullable = new.is_nullable

\* The guard of the first match arm (line 204).
SameType(old, new) == old.col_type = new.col_type

\* Mutant of FixSql: the target is the name of the cached table.
FixSqlCachedName(c, n, cached_col) ==
    AlterSql(c.table_name, cached_col.col_name, cached_col.col_type)

\* The statement built for a column of the cached table c that the current
\* table n lacks (lines 222-228).
FixSql(c, n, cached_col) ==
    AlterSql(n.table_name, cached_col.col_name, cached_col.col_type)

\* Mutant of MissingColSqls: the flag is not tested.
MissingColSqlsAlways(fix, c, n, cached_col) ==
    SetToBag({FixSql(c, n, cached_col)})

\* if fix_lost_cols { .. fix_cols_sqls.push(sql) } (lines 221-231)
MissingColSqls(fix, c, n, cached_col) ==
    IF fix THEN SetToBag({FixSql(c, n, cached_col)}) ELSE EmptyBag

(***************************************************************************)
(* One iteration of the column loop (lines 195-239) for the key col of the *)
(* matched tables c (cached) and n (current), tbl being the key of the     *)
(* table loop: the rows written and the statements pushed.                 *)
(***************************************************************************)
CompareCol(c, n, tbl, col, fix) ==
    LET ci == FindCol(c.col_infos, col)
        ni == FindCol(n.col_infos, col)
    IN  IF ci # 0 /\ ni # 0
        THEN IF SameType(c.col_infos[ci], n.col_infos[ni])
             THEN [rows |-> SetToBag({WriteRow(db_name, tbl, col, "success", <<>>)}),
                   sqls |-> EmptyBag]
             ELSE [rows |-> SetToBag({WriteRow(db_name, tbl, col, "failure",
                                        MismatchMsg(c.col_infos[ci].col_type,
                                                    n.col_infos[ni].col_type))}),
                   sqls |-> EmptyBag]
        ELSE IF ci # 0
        THEN [rows |-> SetToBag({WriteRow(db_name, tbl, col, "failure",
                                          <<"column missing">>)}),
              sqls |-> MissingColSqls(fix, c, n, c.col_infos[ci])]
        ELSE IF ni # 0
        THEN [rows |-> SetToBag({WriteRow(db_name, tbl, col, "failure",
                                          <<"column added">>)}),
              sqls |-> EmptyBag]
        ELSE [rows |-> EmptyBag, sqls |-> EmptyBag]

(***************************************************************************)
(* The column loop (line 194) over the keys cols.  The keys are taken in   *)
(* some order; the sums are bags, which no order changes.                  *)
(***************************************************************************)
RECURSIVE ColumnLoop(_, _, _, _, _)
ColumnLoop(c, n, tbl, cols, fix) ==
    IF cols = {}
    THEN [rows |-> EmptyBag, sqls |-> EmptyBag]
    ELSE LET col == CHOOSE x \in cols : TRUE
             one == CompareCol(c, n, tbl, col, fix)
             rest == ColumnLoop(c, n, tbl, cols \ {col}, fix)
         IN  [rows |-> one.rows (+) rest.rows, sqls |-> one.sqls (+) rest.sqls]

(***************************************************************************)
(* The body of the table loop (lines 171-251) for the key tbl.             *)
(***************************************************************************)
CompareOneTable(c_db, n_db, tbl, fix) ==
    LET ci == FindTable(c_db.table_infos, tbl)
        ni == FindTable(n_db.table_infos, tbl)
    IN  IF ci # 0 /\ ni # 0
        THEN ColumnLoop(c_db.table_infos[ci], n_db.table_infos[ni], tbl,
                        AllCols(c_db.table_infos[ci], n_db.table_infos[ni]), fix)
        ELSE IF ci # 0
        THEN [rows |-> SetToBag({WriteRow(db_name, tbl, <<>>, "failure",
                                          <<"table missing">>)}),
              sqls |-> EmptyBag]
        ELSE IF ni # 0
        THEN [rows |-> SetToBag({WriteRow(db_name, tbl, <<>>, "failure",
                                          <<"table added">>)}),
              sqls |-> EmptyBag]
        ELSE [rows |-> SetToBag({WriteRow(db_name, tbl, <<>>, "failure",
                                          <<"both missing">>)}),
              sqls |-> EmptyBag]

(***************************************************************************)
(* The whole table loop (lines 169-252) over the keys tbls: what a run     *)
(* that compares c_db with n_db writes and pushes in all.                  *)
(***************************************************************************)
RECURSIVE TableLoop(_, _, _, _)
TableLoop(c_db, n_db, tbls, fix) ==
    IF tbls = {}
    THEN [rows |-> EmptyBag, sqls |-> EmptyBag]
    ELSE LET tbl == CHOOSE x \in tbls : TRUE
             one == CompareOneTable(c_db, n_db, tbl, fix)
             rest == TableLoop(c_db, n_db, tbls \ {tbl}, fix)
         IN  [rows |-> one.rows (+) rest.rows, sqls |-> one.sqls (+) rest.sqls]

(***************************************************************************)
(* The run.                                                                *)
(***************************************************************************)
Init ==
    /\ pc = "get_conn"
    /\ fix_lost_cols \in BOOLEAN
    /\ current = NoSnapshot
    /\ cached = NoSnapshot
    /\ all_tables = {}
    /\ rows = EmptyBag
    /\ fix_cols_sqls = EmptyBag
    /\ report_saved = FALSE
    /\ fix_written = FALSE
    /\ err = ""

\* A call returned Err and the ? returned it, or an unwrap / expect panicked:
\* validate_db_info is left at once and main ends.
Abort(what) ==
    /\ pc' = "aborted"
    /\ err' = what
    /\ UNCHANGED <<fix_lost_cols, current, cached, all_tables, rows,
                   fix_cols_sqls, report_saved, fix_written>>

\* pool.get_conn().await? (line 139)
GetConn ==
    /\ pc = "get_conn"
    /\ pc' = "get_db_info"
    /\ UNCHANGED <<fix_lost_cols, current, cached, all_tables, rows,
                   fix_cols_sqls, report_saved, fix_written, err>>

GetConnFail ==
    /\ pc = "get_conn"
    /\ Abort("get_conn")

\* get_db_info(&mut conn, &db_name).await? (lines 140, 111-121): every table
\* fetched, or the first failing query returned as the error.
GetDbInfo ==
    /\ pc = "get_db_info"
    /\ \E s \in Snapshots : current' = s
    /\ pc' = "read_cache"
    /\ UNCHANGED <<fix_lost_cols, cached, all_tables, rows,
                   fix_cols_sqls, report_saved, fix_written, err>>

GetDbInfoFail ==
    /\ pc = "get_db_info"
    /\ Abort("get_db_info")

\* deserialize(&fs::read(cache_file)?).unwrap() (line 141), then lines
\* 143-166: the workbook, the header row, all_tables, the empty statement list.
ReadCache ==
    /\ pc = "read_cache"
    /\ \E s \in SameFamily(current) :
          /\ cached' = s
          /\ all_tables' = AllTables(s, current)
    /\ rows' = SetToBag({HeaderRow})
    /\ fix_cols_sqls' = EmptyBag
    /\ pc' = "compare"
    /\ UNCHANGED <<fix_lost_cols, current, report_saved, fix_written, err>>

\* fs::read returns Err: the ? returns it.
ReadCacheFail ==
    /\ pc = "read_cache"
    /\ Abort("read")

\* Mutant of DecodeFail: the failure is swallowed (unwrap_or_default) and the
\* run goes on with an empty baseline.
DecodeFailIgnored ==
    /\ pc = "read_cache"
    /\ err' = "deserialize"
    /\ cached' = DBInfo(db_name, <<>>)
    /\ all_tables' = AllTables(DBInfo(db_name, <<>>), current)
    /\ rows' = SetToBag({HeaderRow})
    /\ fix_cols_sqls' = EmptyBag
    /\ pc' = "compare"
    /\ UNCHANGED <<fix_lost_cols, current, report_saved, fix_written>>

\* deserialize returns Err: the unwrap panics.
DecodeFail ==
    /\ pc = "read_cache"
    /\ Abort("deserialize")

\* One iteration of for tbl in all_tables (lines 169-252); a HashSet hands
\* its elements over in any order.
CompareTable ==
    /\ pc = "compare"
    /\ \E tbl \in all_tables :
          LET out == CompareOneTable(cached, current, tbl, fix_lost_cols)
          IN  /\ rows' = rows (+) out.rows
              /\ fix_cols_sqls' = fix_cols_sqls (+) out.sqls
              /\ all_tables' = all_tables \ {tbl}
    /\ UNCHANGED <<pc, fix_lost_cols, current, cached, report_saved,
                   fix_written, err>>

\* The loop is over: wb.save(output_xlsx).unwrap() (line 255), then the
\* test of line 258.
SaveReport ==
    /\ pc = "compare"
    /\ all_tables = {}
    /\ report_saved' = TRUE
    /\ pc' = IF fix_lost_cols THEN "write_fix" ELSE "done"
    /\ UNCHANGED <<fix_lost_cols, current, cached, all_tables, rows,
                   fix_cols_sqls, fix_written, err>>

SaveReportFail ==
    /\ pc = "compare"
    /\ all_tables = {}
    /\ Abort("save")

\* fs::write("./path-cols.sql", fix_cols_sqls.join("\n")).expect(..) (259)
WriteFix ==
    /\ pc = "write_fix"
    /\ fix_written' = TRUE
    /\ pc' = "done"
    /\ UNCHANGED <<fix_lost_cols, current, cached, all_tables, rows,
                   fix_cols_sqls, report_saved, err>>

WriteFixFail ==
    /\ pc = "write_fix"
    /\ Abort("write")

Next ==
    \/ GetConn
    \/ GetConnFail
    \/ GetDbInfo
    \/ GetDbInfoFail
    \/ ReadCache
    \/ ReadCacheFail
    \/ DecodeFail
    \/ CompareTable
    \/ SaveReport
    \/ SaveReportFail
    \/ WriteFix
    \/ WriteFixFail

Spec == Init /\ [][Next]_vars

TypeOK ==
    /\ pc \in {"get_conn", "get_db_info", "read_cache", "compare",
               "write_fix", "done", "aborted"}
    /\ fix_lost_cols \in BOOLEAN
    /\ all_tables \subseteq TableNames
    /\ report_saved \in BOOLEAN
    /\ fix_written \in BOOLEAN
    /\ err \in {"", "get_conn", "get_db_info", "read", "deserialize", "save", "write"}

(***************************************************************************)
(* Vocabulary of the properties.                                           *)
(***************************************************************************)
LowerEq(a, b) == to_lowercase(a) = to_lowercase(b)

Tables(db) == { db.table_infos[i] : i \in 1..Len(db.table_infos) }

Cols(t) == { t.col_infos[i] : i \in 1..Len(t.col_infos) }

\* Both snapshots of the run satisfy the uniqueness invariant.
Valid == UniqueTables(cached.table_infos) /\ UniqueTables(current.table_infos)

\* The table loop has just ended: nothing is written or pushed later on.
LoopEnded == pc = "compare" /\ all_tables = {}

\* The table loop has ended.
Finished ==
    \/ pc = "compare" /\ all_tables = {}
    \/ pc \in {"write_fix", "done"}
    \/ pc = "aborted" /\ err \in {"save", "write"}

\* A baseline table and a current table with the same canonical name.
MatchedPairs ==
    { p \in Tables(cached) \X Tables(current) :
        LowerEq(p[1].table_name, p[2].table_name) }

DataRows == { r \in BagToSet(rows) : r.c4 \in {"success", "failure"} }

\* The number of written rows that satisfy P.
RowCount(P(_)) ==
    LET S == { r \in DataRows : P(r) }
    IN  BagCardinality([r \in S |-> CopiesIn(r, rows)])

\* The number of pushed statements that satisfy P.
SqlCount(P(_)) ==
    LET S == { q \in BagToSet(fix_cols_sqls) : P(q) }
    IN  BagCardinality([q \in S |-> CopiesIn(q, fix_cols_sqls)])

IsColumnMissing(r) == r.c5 = <<"column missing">>

\* The pieces of a statement: its target table, its column, the column's type.
SqlTable(q) == q[2]
SqlCol(q) == q[4]
SqlType(q) == q[6]

(***************************************************************************)
(* C1  Column coverage.  For snapshots that satisfy the uniqueness         *)
(* invariant and every table present in both under case-insensitive        *)
(* matching, the finished run has written exactly as many column-level     *)
(* rows for that table as the two tables have distinct lowercased column   *)
(* names.                                                                  *)
(***************************************************************************)
C1_ColumnCoverage ==
    (Finished /\ Valid) =>
        \A p \in MatchedPairs :
            RowCount(LAMBDA r : LowerEq(r.c2, p[1].table_name))
                = Cardinality({ to_lowercase(x) : x \in AllCols(p[1], p[2]) })

(***************************************************************************)
(* C2  Case-insensitive identity.  For snapshots that satisfy the          *)
(* uniqueness invariant: a table present in both under case-insensitive    *)
(* matching never gets a "table missing" or "table added" row, and a       *)
(* column present in both tables of a matched pair under case-insensitive  *)
(* matching never gets a "column missing" or "column added" row.           *)
(***************************************************************************)
C2_CaseInsensitiveIdentity ==
    Valid =>
        \A r \in DataRows :
            /\ r.c5 \in {<<"table missing">>, <<"table added">>} =>
                  ~ \E p \in MatchedPairs : LowerEq(p[1].table_name, r.c2)
            /\ r.c5 \in {<<"column missing">>, <<"column added">>} =>
                  \A p \in MatchedPairs :
                      LowerEq(p[1].table_name, r.c2) =>
                          ~ \E x \in Cols(p[1]), y \in Cols(p[2]) :
                                /\ LowerEq(x.col_name, r.c3)
                                /\ LowerEq(y.col_name, r.c3)

\* A finished run over tables "Us" / "us" whose columns are "Id" / "id".
C2_Witness ==
    /\ pc = "done"
    /\ Valid
    /\ \E p \in MatchedPairs :
          /\ p[1].table_name # p[2].table_name
          /\ \E x \in Cols(p[1]), y \in Cols(p[2]) :
                x.col_name # y.col_name /\ LowerEq(x.col_name, y.col_name)

(***************************************************************************)
(* C3  Self-diff.  Comparing a snapshot that satisfies the uniqueness      *)
(* invariant with itself writes a success row for every column of every    *)
(* table, writes no other row, and pushes no statement, the flag being set *)
(* or not.                                                                 *)
(***************************************************************************)
C3_SelfDiff ==
    (Finished /\ Valid /\ cached = current) =>
        /\ \A r \in DataRows : r.c4 = "success" /\ r.c5 = <<>>
        /\ \A t \in Tables(cached) : \A x \in Cols(t) :
              CopiesIn(WriteRow(db_name, t.table_name, x.col_name, "success", <<>>),
                       rows) >= 1
        /\ fix_cols_sqls = EmptyBag

\* A finished self-diff of two tables, one with two columns, with the flag set.
C3_Witness ==
    /\ pc = "done"
    /\ Valid
    /\ cached = current
    /\ fix_lost_cols
    /\ Len(cached.table_infos) = 2
    /\ \E t \in Tables(cached) : Len(t.col_infos) = 2

(***************************************************************************)
(* C4  Remediation completeness.  With the flag set, for any two           *)
(* snapshots, there are as many statements as "column missing" rows, table *)
(* by table and column by column (canonical names); the target of each     *)
(* statement is the name of a table of the current snapshot, and its       *)
(* column name and type are those of a column of the baseline table of     *)
(* that canonical name.                                                    *)
(***************************************************************************)
C4_RemediationComplete ==
    fix_lost_cols =>
        /\ BagCardinality(fix_cols_sqls) = RowCount(IsColumnMissing)
        /\ \A r \in DataRows :
              IsColumnMissing(r) =>
                  SqlCount(LAMBDA q : /\ LowerEq(SqlTable(q), r.c2)
                                      /\ LowerEq(SqlCol(q), r.c3))
                    = RowCount(LAMBDA o : /\ IsColumnMissing(o)
                                          /\ LowerEq(o.c2, r.c2)
                                          /\ LowerEq(o.c3, r.c3))
        /\ \A q \in BagToSet(fix_cols_sqls) :
              /\ \E n \in Tables(current) : SqlTable(q) = n.table_name
              /\ \E c \in Tables(cached) :
                    /\ LowerEq(c.table_name, SqlTable(q))
                    /\ \E x \in Cols(c) :
                          x.col_name = SqlCol(q) /\ x.col_type = SqlType(q)

\* The flag is set, the baseline table is "Us" and the current one "us" (or
\* the other way round), and a statement has been pushed.
C4_Witness ==
    /\ pc = "done"
    /\ fix_lost_cols
    /\ fix_cols_sqls # EmptyBag
    /\ \E p \in MatchedPairs : p[1].table_name # p[2].table_name

(***************************************************************************)
(* C5  Remediation exclusivity.  In every run every statement is for a     *)
(* column of a baseline table that the matched current table lacks, there  *)
(* are never more statements than "column missing" rows, and with the flag *)
(* unset no statement is pushed and no statement file is written.          *)
(***************************************************************************)
C5_RemediationExclusive ==
    /\ \A q \in BagToSet(fix_cols_sqls) :
          \E c \in Tables(cached), n \in Tables(current) :
              /\ LowerEq(c.table_name, n.table_name)
              /\ SqlTable(q) = n.table_name
              /\ \E x \in Cols(c) :
                    /\ x.col_name = SqlCol(q)
                    /\ x.col_type = SqlType(q)
                    /\ \A y \in Cols(n) : ~ LowerEq(y.col_name, x.col_name)
    /\ BagCardinality(fix_cols_sqls) <= RowCount(IsColumnMissing)
    /\ ~ fix_lost_cols => (fix_cols_sqls = EmptyBag /\ ~ fix_written)

\* A finished run with the flag set that wrote a "column missing" row, a
\* "column added" row and a "table missing" row, and pushed a statement.
C5_Witness ==
    /\ pc = "done"
    /\ fix_lost_cols
    /\ fix_cols_sqls # EmptyBag
    /\ \E r \in DataRows : r.c5 = <<"column missing">>
    /\ \E r \in DataRows : r.c5 = <<"column added">>
    /\ \E r \in DataRows : r.c5 = <<"table missing">>

(***************************************************************************)
(* C6  Display casing.  For snapshots that satisfy the uniqueness          *)
(* invariant, in every written row: a table present in both snapshots is   *)
(* shown in the spelling of the current snapshot, and so is a column       *)
(* present in both tables of a matched pair; a table present in one        *)
(* snapshot only is shown in the spelling of that snapshot.                *)
(***************************************************************************)
C6_DisplayCasing ==
    Valid =>
        \A r \in DataRows :
            /\ \A p \in MatchedPairs :
                  LowerEq(p[2].table_name, r.c2) =>
                      /\ r.c2 = p[2].table_name
                      /\ \A x \in Cols(p[1]), y \in Cols(p[2]) :
                            (LowerEq(x.col_name, r.c3) /\ LowerEq(y.col_name, r.c3))
                                => r.c3 = y.col_name
            /\ (~ \E p \in MatchedPairs : LowerEq(p[2].table_name, r.c2)) =>
                  \E t \in Tables(cached) \cup Tables(current) :
                      r.c2 = t.table_name

(***************************************************************************)
(* Reorderings of a snapshot.                                              *)
(***************************************************************************)
Reorder(seq, f) == [i \in 1..Len(seq) |-> seq[f[i]]]

Orders(seq) ==
    IF Len(seq) = 0 THEN { seq }
    ELSE { Reorder(seq, f) : f \in Permutations(1..Len(seq)) }

\* The table lists that differ from table_infos in the order of columns only.
RECURSIVE ColumnOrders(_)
ColumnOrders(table_infos) ==
    IF Len(table_infos) = 0 THEN { <<>> }
    ELSE { <<TableInfo(Head(table_infos).table_name, cs)>> \o rest :
             cs \in Orders(Head(table_infos).col_infos),
             rest \in ColumnOrders(Tail(table_infos)) }

\* The snapshots that differ from db in the order of tables and columns only.
Reorderings(db) ==
    { DBInfo(db.db_name, ts) :
        ts \in UNION { Orders(cs) : cs \in ColumnOrders(db.table_infos) } }

\* What a run over c_db and n_db has written and pushed when its loop ends.
Outcome(c_db, n_db) ==
    LET out == TableLoop(c_db, n_db, AllTables(c_db, n_db), fix_lost_cols)
    IN  [rows |-> SetToBag({HeaderRow}) (+) out.rows, sqls |-> out.sqls]

(***************************************************************************)
(* C7  Input-order independence.  For snapshots that satisfy the           *)
(* uniqueness invariant, what the run has written and pushed when its      *)
(* table loop ends is what a run over the same snapshots writes and pushes *)
(* with the tables of either snapshot and the columns of any table in any  *)
(* other order.                                                            *)
(* One snapshot is reordered at a time: every pair of snapshots is the     *)
(* input of some run, so reordering both is reordering one and then the    *)
(* other.                                                                  *)
(***************************************************************************)
C7_OrderIndependent ==
    (LoopEnded /\ Valid) =>
        LET here == [rows |-> rows, sqls |-> fix_cols_sqls]
        IN  /\ \A c \in Reorderings(cached) : Outcome(c, current) = here
            /\ \A n \in Reorderings(current) : Outcome(cached, n) = here

\* A finished run with the flag set over snapshots of two tables, each with a
\* table of two columns, that wrote a "column missing" row.
C7_Witness ==
    /\ LoopEnded
    /\ Valid
    /\ fix_lost_cols
    /\ Len(cached.table_infos) = 2
    /\ Len(current.table_infos) = 2
    /\ \E t \in Tables(cached) : Len(t.col_infos) = 2
    /\ \E t \in Tables(current) : Len(t.col_infos) = 2
    /\ \E r \in DataRows : IsColumnMissing(r)

(***************************************************************************)
(* C8  Fail-fast.  When obtaining the connection, capturing the current    *)
(* snapshot, reading the baseline file or decoding it has failed, the run  *)
(* has ended and neither the report nor the statement file is written; the *)
(* report is saved only once both snapshots are there and every table has  *)
(* been compared, and the statement file only after the report.            *)
(***************************************************************************)
C8_FailFast ==
    /\ err \in {"get_conn", "get_db_info", "read", "deserialize"} =>
          (pc = "aborted" /\ ~ report_saved /\ ~ fix_written)
    /\ report_saved =>
          /\ current # NoSnapshot
          /\ cached # NoSnapshot
          /\ all_tables = {}
    /\ fix_written => report_saved

\* The capture succeeded with a non-empty schema and the decoding failed.
C8_Witness ==
    /\ err = "deserialize"
    /\ pc = "aborted"
    /\ Len(current.table_infos) > 0

(***************************************************************************)
(* C9  Type-only comparison.  For snapshots that satisfy the uniqueness    *)
(* invariant and a column present in both tables of a matched pair: every  *)
(* row written for it is success with an empty message if the two type     *)
(* strings are equal, and otherwise failure with the mismatch message that *)
(* gives the baseline type before the current type, whatever the two       *)
(* nullable values; and the finished run has written such a row.           *)
(***************************************************************************)
C9_TypeOnly ==
    Valid =>
        \A p \in MatchedPairs : \A x \in Cols(p[1]), y \in Cols(p[2]) :
            LowerEq(x.col_name, y.col_name) =>
                LET ForIt(r) == /\ LowerEq(r.c2, p[1].table_name)
                                /\ LowerEq(r.c3, x.col_name)
                IN  /\ \A r \in DataRows :
                          ForIt(r) =>
                              IF x.col_type = y.col_type
                              THEN r.c4 = "success" /\ r.c5 = <<>>
                              ELSE /\ r.c4 = "failure"
                                   /\ r.c5 = MismatchMsg(x.col_type, y.col_type)
                    /\ Finished => \E r \in DataRows : ForIt(r)

\* A finished run over a table with one column of equal types and different
\* nullable values and one column of different types and equal nullable values.
C9_Witness ==
    /\ pc = "done"
    /\ Valid
    /\ \E p \in MatchedPairs :
          /\ \E x \in Cols(p[1]), y \in Cols(p[2]) :
                /\ LowerEq(x.col_name, y.col_name)
                /\ x.col_type = y.col_type
                /\ x.is_nullable # y.is_nullable
          /\ \E x \in Cols(p[1]), y \in Cols(p[2]) :
                /\ LowerEq(x.col_name, y.col_name)
                /\ x.col_type # y.col_type
                /\ x.is_nullable = y.is_nullable

(***************************************************************************)
(* C10  Table-level classification.  For snapshots that satisfy the        *)
(* uniqueness invariant, the finished run has written for each table of    *)
(* the baseline alone exactly one row, (failure, no column, "table         *)
(* missing"), for each table of the current snapshot alone exactly one     *)
(* row, (failure, no column, "table added"); no run writes the "both       *)
(* missing" row.                                                           *)
(***************************************************************************)
C10_TableLevel ==
    /\ \A r \in DataRows : r.c5 # <<"both missing">>
    /\ (Finished /\ Valid) =>
          /\ \A c \in Tables(cached) :
                (~ \E n \in Tables(current) : LowerEq(c.table_name, n.table_name))
                  => /\ RowCount(LAMBDA r : LowerEq(r.c2, c.table_name)) = 1
                     /\ CopiesIn(WriteRow(db_name, c.table_name, <<>>, "failure",
                                          <<"table missing">>), rows) = 1
          /\ \A n \in Tables(current) :
                (~ \E c \in Tables(cached) : LowerEq(c.table_name, n.table_name))
                  => /\ RowCount(LAMBDA r : LowerEq(r.c2, n.table_name)) = 1
                     /\ CopiesIn(WriteRow(db_name, n.table_name, <<>>, "failure",
                                          <<"table added">>), rows) = 1

\* A finished run that wrote a "table missing" row and a "table added" row.
C10_Witness ==
    /\ pc = "done"
    /\ Valid
    /\ \E r \in DataRows : r.c5 = <<"table missing">>
    /\ \E r \in DataRows : r.c5 = <<"table added">>

====
